---- MODULE Spec2Model ----
(***************************************************************************)
(* Model of the salon reminder service (services/reminder_service.go):     *)
(* the scheduler, the daily tenant loop, the per-tenant processing, the    *)
(* event-window resolver and the reminder dispatcher.                      *)
(*                                                                         *)
(* Strings are sequences of one-character strings, so that TrimSpace,      *)
(* HasPrefix, TrimPrefix and ReplaceAll do what the Go functions do.       *)
(***************************************************************************)
EXTENDS Integers, Sequences, FiniteSets, TLC

VARIABLES
    env,        \* the process environment: the four TWILIO_* variables
    client,     \* s.client # nil (set by NewReminderService)
    today,      \* the calendar date of time.Now()
    past9,      \* whether today's 09:00 has passed
    salons,     \* table salons: id -> record, or NoSalon when the row is missing
    users,      \* table users: id -> [salon, active]
    customers,  \* table customers: id -> [salon, active, phone, name, birthday, anniversary]
    templates,  \* table reminder_templates: <<salon, type>> -> [present, active, message]
    armed,      \* the cron schedulers StartScheduler started: for each, whether
                \* its 09:00 trigger of today is behind it
    runs,       \* the executions of SendDailyReminders, in order of start
    trace       \* the outgoing calls of the service, in order: queries, sends, log lines

vars == <<env, client, today, past9, salons, users, customers, templates, armed, runs, trace>>

dbvars == <<salons, users, customers, templates>>

-----------------------------------------------------------------------------
(* Bounds of the model *)

\* number of calendar years 'today' ranges over in the resolver specification
NumYears == 2

\* number of executions of SendDailyReminders in one behaviour
MaxRuns == 2

\* number of faults (failing queries or sends) one execution can meet
MaxFaults == 2

\* calls made on the application in one behaviour of SpecApp
MaxCalls ==
    3

\* number of midnights one behaviour passes
MaxDays == 1

\* the first year of the model's calendar; absolute day 0 is January 1 of it
BaseYear == 2023

-----------------------------------------------------------------------------
(* Strings *)

IsSpace(c) ==
    c \in {" ", "\t"}

RECURSIVE TrimLeft(_)
TrimLeft(s) ==
    IF s # <<>> /\ IsSpace(Head(s)) THEN TrimLeft(Tail(s)) ELSE s

RECURSIVE TrimRight(_)
TrimRight(s) ==
    IF s # <<>> /\ IsSpace(s[Len(s)]) THEN TrimRight(SubSeq(s, 1, Len(s) - 1)) ELSE s

\* strings.TrimSpace
TrimSpace(s) ==
    TrimRight(TrimLeft(s))

\* strings.HasPrefix
HasPrefix(s, p) ==
    Len(s) >= Len(p) /\ SubSeq(s, 1, Len(p)) = p

\* strings.TrimPrefix
TrimPrefix(s, p) ==
    IF HasPrefix(s, p) THEN SubSeq(s, Len(p) + 1, Len(s)) ELSE s

\* a faulty variant of ReplaceAll: only the first occurrence is replaced
RECURSIVE ReplaceFirst(_, _, _)
ReplaceFirst(s, old, new) ==
    IF s = <<>> THEN <<>>
    ELSE IF HasPrefix(s, old) THEN new \o SubSeq(s, Len(old) + 1, Len(s))
    ELSE <<Head(s)>> \o ReplaceFirst(Tail(s), old, new)

\* strings.ReplaceAll, for a non-empty old
RECURSIVE ReplaceAll(_, _, _)
ReplaceAll(s, old, new) ==
    IF s = <<>> THEN <<>>
    ELSE IF HasPrefix(s, old) THEN new \o ReplaceAll(SubSeq(s, Len(old) + 1, Len(s)), old, new)
    ELSE <<Head(s)>> \o ReplaceAll(Tail(s), old, new)

\* the literal "whatsapp:"
WhatsAppPrefix ==
    <<"w", "h", "a", "t", "s", "a", "p", "p", ":">>

\* the literal "[CustomerName]"
Placeholder ==
    <<"[", "C", "u", "s", "t", "o", "m", "e", "r", "N", "a", "m", "e", "]">>

-----------------------------------------------------------------------------
(* Calendar: time.Time.AddDate, Month, Day *)


IsLeap(y) ==
    y % 4 = 0 /\ (y % 100 # 0 \/ y % 400 = 0)

DaysInYear(y) ==
    IF IsLeap(y) THEN 366 ELSE 365

\* days before the first of month m in a non-leap year (Go's daysBefore table)
daysBefore ==
    <<0, 31, 59, 90, 120, 151, 181, 212, 243, 273, 304, 334, 365>>

DaysBefore(m) ==
    daysBefore[m]

\* days of year y before the first of month m
DaysBeforeMonth(y, m) ==
    DaysBefore(m) + (IF IsLeap(y) /\ m >= 3 THEN 1 ELSE 0)

DaysIn(y, m) ==
    DaysBeforeMonth(y, m + 1) - DaysBeforeMonth(y, m)

RECURSIVE DaysBeforeYear(_)
DaysBeforeYear(y) ==
    IF y <= BaseYear THEN 0 ELSE DaysBeforeYear(y - 1) + DaysInYear(y - 1)

\* time.Date: the absolute day of year y, month m, day d; d may exceed the month
DateToAbs(y, m, d) ==
    DaysBeforeYear(y) + DaysBeforeMonth(y, m) + (d - 1)

RECURSIVE AbsYear(_, _)
AbsYear(a, y) ==
    IF a < DaysInYear(y) THEN <<y, a>> ELSE AbsYear(a - DaysInYear(y), y + 1)

RECURSIVE AbsMonth(_, _, _)
AbsMonth(y, yday, m) ==
    IF yday < DaysBeforeMonth(y, m + 1) THEN m ELSE AbsMonth(y, yday, m + 1)

\* Time.Date(): the calendar date of an absolute day
AbsToDate(a) ==
    LET yy == AbsYear(a, BaseYear)
        mm == AbsMonth(yy[1], yy[2], 1)
    IN  [y |-> yy[1], m |-> mm, d |-> yy[2] - DaysBeforeMonth(yy[1], mm) + 1]

\* a faulty variant of AddDate: the day is clamped to the month, nothing carries over
AddDateWrong(t, n) ==
    IF t.d + n > DaysIn(t.y, t.m) THEN [y |-> t.y, m |-> t.m, d |-> DaysIn(t.y, t.m)]
    ELSE [y |-> t.y, m |-> t.m, d |-> t.d + n]

\* now.AddDate(0, 0, n): Date(year, month, day+n), normalised
AddDate(t, n) ==
    AbsToDate(DateToAbs(t.y, t.m, t.d + n))

\* a stored date is its (month, day); the year is not read by the resolver
NULL ==
    [m |-> 0, d |-> 0]

MonthDay(t) ==
    [m |-> t.m, d |-> t.d]

-----------------------------------------------------------------------------
(* Domains *)

SalonIDs == {"s1", "s2"}

CustIDs == {"c1", "c2"}

UserIDs == {"u1", "u2", "u3"}

Categories == {"birthday", "anniversary"}

NoSalon ==
    [present |-> FALSE, WhatsAppNotifications |-> FALSE, SMSNotifications |-> FALSE,
     BirthdayReminders |-> FALSE, AnniversaryReminders |-> FALSE]

\* the order in which the data store returns rows when no ORDER BY is given
CustOrder == <<"c1", "c2">>

RECURSIVE Reverse(_)
Reverse(s) ==
    IF s = <<>> THEN <<>> ELSE Reverse(Tail(s)) \o <<Head(s)>>

\* the members of S as rows, in table order or in reverse
Rows(order, S, rev) ==
    LET fwd == SelectSeq(order, LAMBDA x : x \in S)
    IN  IF rev THEN Reverse(fwd) ELSE fwd

Range(s) ==
    {s[i] : i \in DOMAIN s}

-----------------------------------------------------------------------------
(* The trace of outgoing calls *)

Ev(kind, run, salon, cat, ok) ==
    [kind |-> kind, run |-> run, salon |-> salon, cat |-> cat, ok |-> ok,
     rows |-> <<>>, cust |-> "-", channel |-> "-", to |-> <<>>, from |-> <<>>, body |-> <<>>]

-----------------------------------------------------------------------------
(* Event Window Resolver: getUpcomingCustomers *)

\* the loop bound of "for d := 0; d <= 7; d++"
WindowDays == 7

\* the (month, day) pairs of today .. today+7
Pairs(now) ==
    {MonthDay(AddDate(now, d)) : d \in 0..WindowDays}

\* the column the query reads; "" for an invalid event type
Field(eventType) ==
    CASE eventType = "birthday" -> "birthday"
      [] eventType = "anniversary" -> "anniversary"
      [] OTHER -> ""

\* the WHERE clause of the query, on one row of customers
Matches(c, salonID, field, pairs) ==
    /\ customers[c].salon = salonID
    /\ customers[c].active
    /\ customers[c][field] # NULL
    /\ customers[c][field] \in pairs

\* a faulty variant of getUpcomingCustomers: a customer that already got a request
\* for the event type is not returned again
getUpcomingCustomersOnce(salonID, eventType, dbErr, rev) ==
    IF Field(eventType) = "" THEN [err |-> TRUE, rows |-> <<>>]
    ELSE IF dbErr THEN [err |-> TRUE, rows |-> <<>>]
    ELSE LET pairs == Pairs(today)
             reminded == {trace[k].cust : k \in {j \in DOMAIN trace :
                              trace[j].kind = "send" /\ trace[j].cat = eventType}}
         IN  [err |-> FALSE,
              rows |-> Rows(CustOrder,
                            {c \in CustIDs \ reminded :
                                Matches(c, salonID, Field(eventType), pairs)},
                            rev)]

\* getUpcomingCustomers: [err, rows]; dbErr is the data store failing the query,
\* rev the order in which it returns the rows
getUpcomingCustomers(salonID, eventType, dbErr, rev) ==
    IF Field(eventType) = "" THEN [err |-> TRUE, rows |-> <<>>]
    ELSE IF dbErr THEN [err |-> TRUE, rows |-> <<>>]
    ELSE LET pairs == Pairs(today)
         IN  [err |-> FALSE,
              rows |-> Rows(CustOrder,
                            {c \in CustIDs : Matches(c, salonID, Field(eventType), pairs)},
                            rev)]

-----------------------------------------------------------------------------
(* Faults: the queries and sends that fail during one execution *)

NoID == "-"

FaultUsers == <<"users", NoID, NoID>>

FaultSalon(s) == <<"salon", s, NoID>>

FaultCustomers(s, cat) == <<"customers", s, cat>>

FaultTemplate(s, cat) == <<"template", s, cat>>

FaultSend(c, cat) == <<"send", c, cat>>

\* what the data store and the gateway do during one execution: the calls that
\* fail, and the order in which customer rows come back
Plan(faults, rev) ==
    [faults |-> faults, rev |-> rev]

-----------------------------------------------------------------------------
(* Reminder Dispatcher: sendReminders *)

\* First(&template) WHERE salon_id = ? AND type = ? AND is_active = true
ActiveTemplates(salonID, eventType) ==
    SelectSeq(templates[<<salonID, eventType>>], LAMBDA t : t.active)

\* fromWhatsApp := TrimPrefix(TrimSpace(Getenv("TWILIO_WHATSAPP_NUMBER")), "whatsapp:")
FromWhatsApp ==
    TrimPrefix(TrimSpace(env.TWILIO_WHATSAPP_NUMBER), WhatsAppPrefix)

\* fromSMS := Getenv("TWILIO_PHONE_NUMBER")
FromSMS ==
    env.TWILIO_PHONE_NUMBER

\* a faulty variant of UseWhatsApp: the '+' prefix of the phone is not asked for
UseWhatsAppAnyPhone(salon, phone) ==
    salon.WhatsAppNotifications /\ FromWhatsApp # <<>>

\* useWhatsApp := salon.WhatsAppNotifications && HasPrefix(phone, "+") && fromWhatsApp != ""
UseWhatsApp(salon, phone) ==
    salon.WhatsAppNotifications /\ HasPrefix(phone, <<"+">>) /\ FromWhatsApp # <<>>

\* useSMS := salon.SMSNotifications && fromSMS != ""
UseSMS(salon) ==
    salon.SMSNotifications /\ FromSMS # <<>>

\* a faulty variant of SendOne: a customer eligible for both channels gets a request
\* on each
SendOneFanOut(run, salonID, salon, eventType, message, c, faults) ==
    LET phone == customers[c].phone
        body == ReplaceAll(message, Placeholder, customers[c].name)
        req == [Ev("send", run, salonID, eventType, FaultSend(c, eventType) \notin faults)
                    EXCEPT !.cust = c, !.body = body]
        wa == <<[req EXCEPT !.channel = "whatsapp", !.to = WhatsAppPrefix \o phone,
                            !.from = WhatsAppPrefix \o FromWhatsApp]>>
        sms == <<[req EXCEPT !.channel = "sms", !.to = phone, !.from = FromSMS]>>
    IN  IF TrimSpace(phone) = <<>> THEN <<>>
        ELSE (IF UseWhatsApp(salon, phone) THEN wa ELSE <<>>)
             \o (IF UseSMS(salon) THEN sms ELSE <<>>)

\* the gateway request of one loop iteration, or nothing when the customer is skipped
SendOne(run, salonID, salon, eventType, message, c, faults) ==
    LET phone == customers[c].phone
        body == ReplaceAll(message, Placeholder, customers[c].name)
        req == [Ev("send", run, salonID, eventType, FaultSend(c, eventType) \notin faults)
                    EXCEPT !.cust = c, !.body = body]
    IN  IF TrimSpace(phone) = <<>> THEN <<>>
        ELSE IF UseWhatsApp(salon, phone)
             THEN <<[req EXCEPT !.channel = "whatsapp", !.to = WhatsAppPrefix \o phone,
                                !.from = WhatsAppPrefix \o FromWhatsApp]>>
        ELSE IF ~UseSMS(salon) THEN <<>>
        ELSE <<[req EXCEPT !.channel = "sms", !.to = phone, !.from = FromSMS]>>

\* a faulty variant of SendLoop: the loop ends at the first failed request
RECURSIVE SendLoopStopOnError(_, _, _, _, _, _, _)
SendLoopStopOnError(run, salonID, salon, eventType, message, rows, faults) ==
    IF rows = <<>> THEN <<>>
    ELSE LET one == SendOne(run, salonID, salon, eventType, message, Head(rows), faults)
         IN  IF one # <<>> /\ ~one[1].ok THEN one
             ELSE one \o SendLoopStopOnError(run, salonID, salon, eventType, message,
                                             Tail(rows), faults)

\* the loop "for _, customer := range customers"
RECURSIVE SendLoop(_, _, _, _, _, _, _)
SendLoop(run, salonID, salon, eventType, message, rows, faults) ==
    IF rows = <<>> THEN <<>>
    ELSE SendOne(run, salonID, salon, eventType, message, Head(rows), faults)
         \o SendLoop(run, salonID, salon, eventType, message, Tail(rows), faults)

\* sendReminders: the template lookup, then one request per eligible customer
sendReminders(run, salonID, rows, eventType, salon, faults) ==
    LET found == ActiveTemplates(salonID, eventType)
        ok == FaultTemplate(salonID, eventType) \notin faults /\ found # <<>>
    IN  <<Ev("template", run, salonID, eventType, ok)>>
        \o (IF ok THEN SendLoop(run, salonID, salon, eventType, found[1].message, rows, faults)
            ELSE <<>>)

-----------------------------------------------------------------------------
(* Tenant processing: ProcessSalonReminders *)

\* one category of one tenant: the customer lookup, then the dispatch
Category(run, salonID, salon, eventType, plan) ==
    LET r == getUpcomingCustomers(salonID, eventType,
                                  FaultCustomers(salonID, eventType) \in plan.faults, plan.rev)
    IN  <<[Ev("customers", run, salonID, eventType, ~r.err) EXCEPT !.rows = r.rows]>>
        \o (IF r.err THEN <<>>
            ELSE sendReminders(run, salonID, r.rows, eventType, salon, plan.faults))

\* the tenant-level gate: at least one notification channel enabled
ChannelGate(salon) ==
    salon.WhatsAppNotifications \/ salon.SMSNotifications

\* a faulty variant of CategoryGate: the category flags are not read
CategoryGateOpen(salon, eventType) ==
    TRUE

\* the category-level gate: "if salon.BirthdayReminders", "if salon.AnniversaryReminders"
CategoryGate(salon, eventType) ==
    IF eventType = "birthday" THEN salon.BirthdayReminders ELSE salon.AnniversaryReminders

\* a faulty variant of AnniversaryAfter: a failed birthday unit ends the processing
AnniversaryAfterStop(salon, birthdayEvents) ==
    CategoryGate(salon, "anniversary")
    /\ \A i \in DOMAIN birthdayEvents :
          birthdayEvents[i].kind \in {"customers", "template"} => birthdayEvents[i].ok

\* whether the anniversary block runs after the birthday block: on its own flag
\* alone, whatever the birthday lookup and dispatch did
AnniversaryAfter(salon, birthdayEvents) ==
    CategoryGate(salon, "anniversary")

\* a faulty variant of ProcessSalonReminders: the anniversary block runs first
ProcessSalonRemindersAnniversaryFirst(run, salonID, plan) ==
    LET salon == salons[salonID]
        ok == salon.present /\ FaultSalon(salonID) \notin plan.faults
        birthday == IF CategoryGate(salon, "birthday")
                    THEN Category(run, salonID, salon, "birthday", plan) ELSE <<>>
        anniversary == IF AnniversaryAfter(salon, birthday)
                       THEN Category(run, salonID, salon, "anniversary", plan) ELSE <<>>
    IN  <<Ev("salon", run, salonID, NoID, ok)>>
        \o (IF ~ok THEN <<>>
            ELSE IF ~ChannelGate(salon) THEN <<>>
            ELSE anniversary \o birthday)

\* ProcessSalonReminders: the outgoing calls it makes, in order
ProcessSalonReminders(run, salonID, plan) ==
    LET salon == salons[salonID]
        ok == salon.present /\ FaultSalon(salonID) \notin plan.faults
        birthday == IF CategoryGate(salon, "birthday")
                    THEN Category(run, salonID, salon, "birthday", plan) ELSE <<>>
        anniversary == IF AnniversaryAfter(salon, birthday)
                       THEN Category(run, salonID, salon, "anniversary", plan) ELSE <<>>
    IN  <<Ev("salon", run, salonID, NoID, ok)>>
        \o (IF ~ok THEN <<>>
            ELSE IF ~ChannelGate(salon) THEN <<>>
            ELSE birthday \o anniversary)

-----------------------------------------------------------------------------
(* Values the tables and the environment are drawn from *)

\* phone numbers and sender identities
Plus1 == <<"+", "1">>

Plus2 == <<"+", "2">>

Local1 == <<"1">>

SpacePlus1 == <<" ", "+", "1">>

Blank == <<" ">>

Empty == <<>>

\* customer names
Asha == <<"A", "s", "h", "a">>

Bo == <<"B", "o">>

Customer(salon, active, phone, name, birthday, anniversary) ==
    [salon |-> salon, active |-> active, phone |-> phone, name |-> name,
     birthday |-> birthday, anniversary |-> anniversary]

Salon(wa, sms, bday, anniv) ==
    [present |-> TRUE, WhatsAppNotifications |-> wa, SMSNotifications |-> sms,
     BirthdayReminders |-> bday, AnniversaryReminders |-> anniv]

Env(sid, token, phone, whatsapp) ==
    [TWILIO_ACCOUNT_SID |-> sid, TWILIO_AUTH_TOKEN |-> token,
     TWILIO_PHONE_NUMBER |-> phone, TWILIO_WHATSAPP_NUMBER |-> whatsapp]

\* a faulty variant of NewReminderService: the credentials are not trimmed
NewReminderServiceNoTrim(e) ==
    e.TWILIO_ACCOUNT_SID # <<>> /\ e.TWILIO_AUTH_TOKEN # <<>>

\* NewReminderService: the client is built iff both credentials are non-blank
NewReminderService(e) ==
    TrimSpace(e.TWILIO_ACCOUNT_SID) # <<>> /\ TrimSpace(e.TWILIO_AUTH_TOKEN) # <<>>

-----------------------------------------------------------------------------
(* The calendar as the claims speak of it: the day after and the day before *)

CalNext(t) ==
    IF t.d < DaysIn(t.y, t.m) THEN [t EXCEPT !.d = t.d + 1]
    ELSE IF t.m < 12 THEN [t EXCEPT !.m = t.m + 1, !.d = 1]
    ELSE [y |-> t.y + 1, m |-> 1, d |-> 1]

CalPrev(t) ==
    IF t.d > 1 THEN [t EXCEPT !.d = t.d - 1]
    ELSE IF t.m > 1 THEN [t EXCEPT !.m = t.m - 1, !.d = DaysIn(t.y, t.m - 1)]
    ELSE [y |-> t.y - 1, m |-> 12, d |-> 31]

RECURSIVE CalStep(_, _)
CalStep(t, k) ==
    IF k = 0 THEN t
    ELSE IF k > 0 THEN CalStep(CalNext(t), k - 1)
    ELSE CalStep(CalPrev(t), k + 1)

\* every date of the years the resolver specification covers
Dates ==
    {[y |-> y, m |-> m, d |-> d] :
        y \in BaseYear..(BaseYear + NumYears - 1), m \in 1..12, d \in 1..31}
    \ {t \in [y : BaseYear..(BaseYear + NumYears - 1), m : 1..12, d : 1..31] :
        t.d > DaysIn(t.y, t.m)}

\* stored <<birthday, anniversary>> pairs around the window of 'today', and fixed ones
DateChoices(t) ==
    {<<MonthDay(CalStep(t, k[1])), MonthDay(CalStep(t, k[2]))>> :
        k \in {<<-1, 7>>, <<0, 8>>, <<7, -1>>, <<8, 0>>}}
    \cup {<<NULL, MonthDay(CalStep(t, 1))>>,
          <<[m |-> 2, d |-> 29], NULL>>,
          <<[m |-> 12, d |-> 30], [m |-> 1, d |-> 2]>>,
          <<[m |-> 1, d |-> 2], [m |-> 12, d |-> 30]>>}

-----------------------------------------------------------------------------
(* Specification SpecResolver: getUpcomingCustomers on every 'today' *)

DefaultEnv ==
    Env(<<"A", "C">>, <<"t">>, Plus2, WhatsAppPrefix \o Plus2)

DefaultSalons ==
    [s \in SalonIDs |-> Salon(TRUE, TRUE, TRUE, TRUE)]

DefaultUsers ==
    [u \in UserIDs |-> [salon |-> "s1", active |-> TRUE]]

Template(active, message) ==
    [active |-> active, message |-> message]

HappyBirthday ==
    <<"H", "B", " ">> \o Placeholder \o <<"!">>

HappyAnniversary ==
    <<"H", "A", " ">> \o Placeholder

DefaultTemplates ==
    [k \in SalonIDs \X Categories |->
        IF k[2] = "birthday" THEN <<Template(TRUE, HappyBirthday)>>
        ELSE <<Template(TRUE, HappyAnniversary)>>]

InitResolver ==
    /\ today \in Dates
    /\ \E a \in BOOLEAN, b \in DateChoices(today) :
            customers = [c \in CustIDs |->
                IF c = "c1" THEN Customer("s1", a, Plus1, Asha, b[1], b[2])
                ELSE Customer("s2", TRUE, Local1, Bo,
                              MonthDay(today), MonthDay(CalStep(today, 7)))]
    /\ env = DefaultEnv
    /\ client = NewReminderService(env)
    /\ past9 = FALSE
    /\ salons = DefaultSalons
    /\ users = DefaultUsers
    /\ templates = DefaultTemplates
    /\ armed = 0
    /\ runs = <<>>
    /\ trace = <<>>

\* one call of getUpcomingCustomers; the trace keeps the last call
Resolve(salonID, eventType, dbErr, rev) ==
    LET r == getUpcomingCustomers(salonID, eventType, dbErr, rev)
    IN  /\ trace' = <<[Ev("customers", 0, salonID, eventType, ~r.err) EXCEPT !.rows = r.rows]>>
        /\ UNCHANGED <<env, client, today, past9, dbvars, armed, runs>>

NextResolver ==
    \E s \in SalonIDs, cat \in Categories :
        Resolve(s, cat, FALSE, FALSE)

SpecResolver ==
    InitResolver /\ [][NextResolver]_vars

\* the (month, day) of today, today+1, ..., today+7
WindowOf(t) ==
    {MonthDay(CalStep(t, k)) : k \in 0..7}

\* C1: a successful getUpcomingCustomers(tenant, category) returns an active customer
\* of the tenant with a non-null relevant date iff the date's (month, day) is that of
\* one of today .. today+7; the (month, day) of today-1 and of today+8 is never
\* returned; Dec 30 is returned on Dec 25 and Jan 2 on Dec 29.
C1_Window ==
    \A i \in DOMAIN trace :
        LET e == trace[i] IN
        (e.kind = "customers" /\ e.ok) =>
            \A c \in CustIDs :
                LET date == customers[c][e.cat] IN
                (customers[c].salon = e.salon /\ customers[c].active /\ date # NULL) =>
                    /\ (c \in Range(e.rows)) <=> (date \in WindowOf(today))
                    /\ date \in {MonthDay(CalPrev(today)), MonthDay(CalStep(today, 8))}
                          => c \notin Range(e.rows)
                    /\ (MonthDay(today) = [m |-> 12, d |-> 25] /\ date = [m |-> 12, d |-> 30])
                          => c \in Range(e.rows)
                    /\ (MonthDay(today) = [m |-> 12, d |-> 29] /\ date = [m |-> 1, d |-> 2])
                          => c \in Range(e.rows)

\* the window wraps the year: on Dec 29 the customer born on Jan 2 is returned
C1_Witness ==
    /\ MonthDay(today) = [m |-> 12, d |-> 29]
    /\ \E i \in DOMAIN trace :
        /\ trace[i].kind = "customers" /\ trace[i].ok /\ trace[i].cat = "birthday"
        /\ "c1" \in Range(trace[i].rows)
        /\ customers["c1"].birthday = [m |-> 1, d |-> 2]

-----------------------------------------------------------------------------
(* Executions of SendDailyReminders and calls of ProcessSalonReminders *)

\* kind: who started it; pc: where it stands; queue: the salon ids of the fetched
\* users; i: the next one to look at; seen: the salons already processed
Run(kind, pc, queue, i, seen, plan) ==
    [kind |-> kind, pc |-> pc, queue |-> queue, i |-> i, seen |-> seen, plan |-> plan]

TenantFaultKeys(s) ==
    {FaultSalon(s)}
    \cup {FaultCustomers(s, cat) : cat \in Categories}
    \cup {FaultTemplate(s, cat) : cat \in Categories}
    \cup {FaultSend(c, cat) : c \in CustIDs, cat \in Categories}

Plans(keys) ==
    {Plan(F, rev) : F \in {G \in SUBSET keys : Cardinality(G) <= MaxFaults}, rev \in BOOLEAN}

-----------------------------------------------------------------------------
(* Specification SpecTenant: one call of ProcessSalonReminders on every tenant *)
(* configuration                                                              *)

\* Dec 29 of a leap year: the window runs into January
YearEnd ==
    [y |-> 2024, m |-> 12, d |-> 29]

InWindow ==
    [m |-> 1, d |-> 2]

OutOfWindow ==
    [m |-> 1, d |-> 6]

WhatsAppSenders ==
    {Empty, Blank, WhatsAppPrefix, WhatsAppPrefix \o Plus2, <<" ">> \o Plus2}

SMSSenders ==
    {Empty, Blank, Plus2}

Phones ==
    {Empty, Blank, Plus1, Local1, SpacePlus1}

SalonRecords ==
    {Salon(wa, sms, b, a) : wa \in BOOLEAN, sms \in BOOLEAN, b \in BOOLEAN, a \in BOOLEAN}

OtherMessage ==
    <<"H", "i">>

\* the channel policy family: every channel flag, sender identity and phone shape
InitTenantChannels ==
    /\ \E wa \in BOOLEAN, sms \in BOOLEAN :
          salons = [s \in SalonIDs |-> IF s = "s1" THEN Salon(wa, sms, TRUE, TRUE)
                                       ELSE Salon(TRUE, TRUE, TRUE, TRUE)]
    /\ \E w \in WhatsAppSenders, p \in SMSSenders :
          env = Env(<<"A", "C">>, <<"t">>, p, w)
    /\ \E p1 \in Phones, p2 \in {Plus1, Local1} :
          customers = [c \in CustIDs |->
              IF c = "c1" THEN Customer("s1", TRUE, p1, Asha, InWindow, InWindow)
              ELSE Customer("s1", TRUE, p2, Bo, InWindow, NULL)]
    /\ templates = DefaultTemplates

\* the gating and failure family: every tenant flag, missing rows and templates
InitTenantGates ==
    /\ \E r \in SalonRecords \cup {NoSalon} :
          salons = [s \in SalonIDs |-> IF s = "s1" THEN r ELSE Salon(TRUE, TRUE, TRUE, TRUE)]
    /\ env = DefaultEnv
    /\ \E b \in {InWindow, OutOfWindow}, a \in BOOLEAN, n \in {InWindow, NULL} :
          customers = [c \in CustIDs |->
              IF c = "c1" THEN Customer("s1", TRUE, Plus1, Asha, b, InWindow)
              ELSE Customer("s1", a, Local1, Bo, InWindow, n)]
    /\ \E tb \in {<<>>, <<Template(TRUE, HappyBirthday)>>, <<Template(FALSE, HappyBirthday)>>,
                  <<Template(FALSE, OtherMessage), Template(TRUE, HappyBirthday)>>},
          ta \in {<<>>, <<Template(TRUE, HappyAnniversary)>>} :
          templates = [k \in SalonIDs \X Categories |->
              IF k[1] # "s1" THEN DefaultTemplates[k]
              ELSE IF k[2] = "birthday" THEN tb ELSE ta]

InitTenant ==
    /\ today = YearEnd
    /\ past9 = FALSE
    /\ InitTenantChannels \/ InitTenantGates
    /\ client = NewReminderService(env)
    /\ users = DefaultUsers
    /\ armed = 0
    /\ runs = <<>>
    /\ trace = <<>>

\* one call of ProcessSalonReminders(salonID)
ProcessTenant(salonID, plan) ==
    /\ runs = <<>>
    /\ runs' = <<Run("process", "done", <<salonID>>, 1, {salonID}, plan)>>
    /\ trace' = ProcessSalonReminders(1, salonID, plan)
    /\ UNCHANGED <<env, client, today, past9, dbvars, armed>>

\* the tenant ProcessSalonReminders is called on: the one the families vary
TenantsUnderTest ==
    {"s1"}

NextTenant ==
    \E s \in TenantsUnderTest :
        \E plan \in Plans(TenantFaultKeys(s)) :
            ProcessTenant(s, plan)

SpecTenant ==
    InitTenant /\ [][NextTenant]_vars

-----------------------------------------------------------------------------
(* What the claims speak of, read off the trace *)

\* the events of one kind that execution 'run' issued for (salon, cat)
EventsOf(kind, run, salonID, cat) ==
    SelectSeq(trace, LAMBDA e :
        e.kind = kind /\ e.run = run /\ e.salon = salonID /\ e.cat = cat)

\* the send requests of execution 'run' for (salon, cat, customer)
SendsTo(run, salonID, cat, c) ==
    SelectSeq(trace, LAMBDA e :
        e.kind = "send" /\ e.run = run /\ e.salon = salonID /\ e.cat = cat /\ e.cust = c)

\* the customers of a sequence of send requests, in order
RECURSIVE CustsOf(_)
CustsOf(evs) ==
    IF evs = <<>> THEN <<>> ELSE <<Head(evs).cust>> \o CustsOf(Tail(evs))

IsBlank(phone) ==
    \A i \in DOMAIN phone : phone[i] \in {" ", "\t"}

WhatsAppSenderConfigured ==
    FromWhatsApp # <<>>

SMSSenderConfigured ==
    FromSMS # <<>>

\* the priority rule of the channel selection policy
PolicyDecision(salon, phone) ==
    IF IsBlank(phone) THEN "skip"
    ELSE IF salon.WhatsAppNotifications /\ phone[1] = "+" /\ WhatsAppSenderConfigured
         THEN "whatsapp"
    ELSE IF salon.SMSNotifications /\ SMSSenderConfigured THEN "sms"
    ELSE "skip"

\* the batches that reached the customer loop: indexes of successful template lookups
Batches ==
    {i \in DOMAIN trace : trace[i].kind = "template" /\ trace[i].ok}

\* C2: in every batch of sendReminders, each customer handed to it gets the decision
\* of the priority rule: no request when the phone is blank; else one WhatsApp request
\* iff the tenant has WhatsApp on, the phone begins with '+' and a WhatsApp sender is
\* configured; else one SMS request iff the tenant has SMS on and an SMS sender is
\* configured; else no request.
C2_ChannelPolicy ==
    \A i \in Batches :
        LET t == trace[i]
            rows == trace[i - 1].rows
        IN  \A c \in Range(rows) :
                LET sends == SendsTo(t.run, t.salon, t.cat, c)
                    d == PolicyDecision(salons[t.salon], customers[c].phone)
                IN  /\ d = "skip" => sends = <<>>
                    /\ d = "whatsapp" =>
                          /\ Len(sends) = 1
                          /\ sends[1].channel = "whatsapp"
                          /\ HasPrefix(sends[1].to, WhatsAppPrefix)
                    /\ d = "sms" =>
                          /\ Len(sends) = 1
                          /\ sends[1].channel = "sms"
                          /\ sends[1].to = customers[c].phone

\* WhatsApp is chosen for a customer for whom SMS is eligible too
C2_Witness ==
    \E i \in DOMAIN trace :
        /\ trace[i].kind = "send" /\ trace[i].channel = "whatsapp"
        /\ salons[trace[i].salon].SMSNotifications
        /\ SMSSenderConfigured

\* C6: a send request for (tenant, category) is issued only if the tenant's flag for
\* the category is on and at least one of its channel flags is on; a tenant with both
\* channels off gets no send request.
C6_Gating ==
    \A i \in DOMAIN trace :
        trace[i].kind = "send" =>
            LET salon == salons[trace[i].salon] IN
            /\ salon.present
            /\ IF trace[i].cat = "birthday" THEN salon.BirthdayReminders
               ELSE salon.AnniversaryReminders
            /\ salon.WhatsAppNotifications \/ salon.SMSNotifications

\* a tenant with anniversaries off and one channel on gets a birthday request, and a
\* customer of it has an anniversary in the window
C6_Witness ==
    /\ \E i \in DOMAIN trace :
        /\ trace[i].kind = "send" /\ trace[i].cat = "birthday"
        /\ ~salons[trace[i].salon].AnniversaryReminders
        /\ ~salons[trace[i].salon].WhatsAppNotifications
    /\ customers["c1"].anniversary = InWindow

\* C8: in every batch, one send request is issued for each eligible customer, in the
\* order of the rows, whether or not earlier requests failed: a failure neither stops
\* the batch nor is retried.
C8_SendIsolation ==
    \A i \in Batches :
        LET t == trace[i]
            rows == trace[i - 1].rows
            eligible == SelectSeq(rows, LAMBDA c :
                            PolicyDecision(salons[t.salon], customers[c].phone) # "skip")
        IN  CustsOf(EventsOf("send", t.run, t.salon, t.cat)) = eligible

\* a failed request is followed by a request for a later customer of the same batch
C8_Witness ==
    \E i \in DOMAIN trace :
        /\ i < Len(trace)
        /\ trace[i].kind = "send" /\ ~trace[i].ok
        /\ trace[i + 1].kind = "send" /\ trace[i + 1].cat = trace[i].cat
        /\ trace[i + 1].cust # trace[i].cust

\* the (tenant, category) units that failed: the customer lookup or the template lookup
UnitFailed(run, salonID, cat) ==
    \E i \in DOMAIN trace :
        /\ trace[i].kind \in {"customers", "template"}
        /\ trace[i].run = run /\ trace[i].salon = salonID /\ trace[i].cat = cat
        /\ ~trace[i].ok

\* the unit was resolved and dispatched: its lookup was made and, when it and the
\* template lookup succeeded, every eligible customer got a request
UnitDispatched(run, salonID, cat) ==
    LET q == EventsOf("customers", run, salonID, cat)
        t == EventsOf("template", run, salonID, cat)
    IN  /\ Len(q) = 1
        /\ q[1].ok => Len(t) = 1
        /\ (q[1].ok /\ t[1].ok) =>
              CustsOf(EventsOf("send", run, salonID, cat)) =
                  SelectSeq(q[1].rows, LAMBDA c :
                      PolicyDecision(salons[salonID], customers[c].phone) # "skip")

\* the tenants whose processing passed the channel gate, per execution
Processed ==
    {<<trace[i].run, trace[i].salon>> : i \in {j \in DOMAIN trace :
        /\ trace[j].kind = "salon" /\ trace[j].ok
        /\ (salons[trace[j].salon].WhatsAppNotifications
            \/ salons[trace[j].salon].SMSNotifications)}}

OtherCategory(cat) ==
    IF cat = "birthday" THEN "anniversary" ELSE "birthday"

\* C9: when the customer lookup or the template lookup of (tenant, category) fails, no
\* send request is issued for that unit, and the tenant's other category, when enabled,
\* is still resolved and dispatched.
C9_CategoryIsolation ==
    \A p \in Processed : \A cat \in Categories :
        UnitFailed(p[1], p[2], cat) =>
            /\ EventsOf("send", p[1], p[2], cat) = <<>>
            /\ (IF cat = "birthday" THEN salons[p[2]].AnniversaryReminders
                ELSE salons[p[2]].BirthdayReminders)
                  => UnitDispatched(p[1], p[2], OtherCategory(cat))

\* the birthday unit failed and anniversary requests were still issued
C9_Witness ==
    \E p \in Processed :
        /\ UnitFailed(p[1], p[2], "birthday")
        /\ EventsOf("send", p[1], p[2], "anniversary") # <<>>

-----------------------------------------------------------------------------
(* The tenant loop: SendDailyReminders *)

\* the sequences a set of rows can come back in
Orders(S) ==
    {f \in [1..Cardinality(S) -> S] : \A i, j \in DOMAIN f : f[i] = f[j] => i = j}

\* Find(&users, "is_active = ?", true)
ActiveUsers ==
    {u \in UserIDs : users[u].active}

\* a faulty variant of Seen: no salon is remembered
SeenNever(run, salonID) ==
    FALSE

\* seen[u.SalonID]
Seen(run, salonID) ==
    salonID \in run.seen

\* a faulty variant of NextPc: a failed lookup or send of one tenant ends the loop
NextPcStopOnFailure(run, events) ==
    IF run.i >= Len(run.queue) \/ \E k \in DOMAIN events : ~events[k].ok
    THEN "done" ELSE "loop"

\* where the loop stands after one user: the next user, or the end of the slice;
\* nothing ProcessSalonReminders did is looked at
NextPc(run, events) ==
    IF run.i >= Len(run.queue) THEN "done" ELSE "loop"

\* the log line that ends StartScheduler, written when its own run returns
Finished(r, kind, pc) ==
    IF kind = "startup" /\ pc = "done" THEN <<Ev("log_started", r, NoID, NoID, TRUE)>> ELSE <<>>

NoPlan ==
    Plan({}, FALSE)

\* the head of SendDailyReminders, up to the loop: the client check and the users
\* query. 'order' is the order in which the active users come back.
BeginRun(kind, plan, order) ==
    LET r == Len(runs) + 1
        queue == [i \in DOMAIN order |-> users[order[i]].salon]
    IN  IF ~client
        THEN /\ plan = NoPlan
             /\ runs' = Append(runs, Run(kind, "done", <<>>, 1, {}, plan))
             /\ trace' = trace \o Finished(r, kind, "done")
        ELSE IF FaultUsers \in plan.faults
        THEN /\ runs' = Append(runs, Run(kind, "done", <<>>, 1, {}, plan))
             /\ trace' = Append(trace, Ev("users", r, NoID, NoID, FALSE))
                            \o Finished(r, kind, "done")
        ELSE LET pc == IF queue = <<>> THEN "done" ELSE "loop"
             IN  /\ runs' = Append(runs, Run(kind, pc, queue, 1, {}, plan))
                 /\ trace' = Append(trace, Ev("users", r, NoID, NoID, TRUE))
                                \o Finished(r, kind, pc)

\* a faulty variant of LoopStep: the customers that got a request are written back
\* as inactive
LoopStepMarking(r) ==
    /\ r \in DOMAIN runs
    /\ runs[r].pc = "loop"
    /\ LET run == runs[r]
           s == run.queue[run.i]
           events == IF Seen(run, s) THEN <<>> ELSE ProcessSalonReminders(r, s, run.plan)
           pc == NextPc(run, events)
           reminded == {events[k].cust : k \in {j \in DOMAIN events : events[j].kind = "send"}}
       IN  /\ runs' = [runs EXCEPT ![r] = [run EXCEPT !.i = run.i + 1,
                                                      !.seen = run.seen \cup {s},
                                                      !.pc = pc]]
           /\ trace' = trace \o events \o Finished(r, run.kind, pc)
           /\ customers' = [c \in CustIDs |->
                 IF c \in reminded THEN [customers[c] EXCEPT !.active = FALSE]
                 ELSE customers[c]]
    /\ UNCHANGED <<env, client, today, past9, salons, users, templates, armed>>

\* one iteration of "for _, u := range users"
LoopStep(r) ==
    /\ r \in DOMAIN runs
    /\ runs[r].pc = "loop"
    /\ LET run == runs[r]
           s == run.queue[run.i]
           events == IF Seen(run, s) THEN <<>> ELSE ProcessSalonReminders(r, s, run.plan)
           pc == NextPc(run, events)
       IN  /\ runs' = [runs EXCEPT ![r] = [run EXCEPT !.i = run.i + 1,
                                                      !.seen = run.seen \cup {s},
                                                      !.pc = pc]]
           /\ trace' = trace \o events \o Finished(r, run.kind, pc)
    /\ UNCHANGED <<env, client, today, past9, dbvars, armed>>

\* a call of SendDailyReminders from outside the scheduler
CallSendDailyReminders(plan, order) ==
    /\ BeginRun("direct", plan, order)
    /\ UNCHANGED <<env, client, today, past9, dbvars, armed>>

-----------------------------------------------------------------------------
(* Specification SpecRun: one execution of SendDailyReminders over two tenants *)

\* the faults an execution of SpecRun can meet
RunFaultKeys ==
    {FaultUsers, FaultSalon("s1"), FaultSalon("s2"),
     FaultCustomers("s1", "birthday"), FaultCustomers("s2", "birthday"),
     FaultTemplate("s1", "anniversary"),
     FaultSend("c1", "birthday"), FaultSend("c2", "birthday")}

RunPlans(keys) ==
    {Plan(F, FALSE) : F \in {G \in SUBSET keys : Cardinality(G) <= MaxFaults}}

Unconfigured ==
    {Env(Blank, <<"t">>, Plus2, Plus2), Env(<<"A", "C">>, Empty, Plus2, Plus2)}

InitRun ==
    /\ today = YearEnd
    /\ past9 = FALSE
    /\ env \in {DefaultEnv} \cup Unconfigured
    /\ client = NewReminderService(env)
    /\ \E a1 \in BOOLEAN, s \in SalonIDs, a3 \in BOOLEAN :
          users = [u \in UserIDs |->
              IF u = "u1" THEN [salon |-> "s1", active |-> a1]
              ELSE IF u = "u2" THEN [salon |-> s, active |-> TRUE]
              ELSE [salon |-> "s2", active |-> a3]]
    /\ \E r1 \in {Salon(TRUE, TRUE, TRUE, TRUE), NoSalon, Salon(FALSE, FALSE, TRUE, TRUE)},
          r2 \in {Salon(TRUE, TRUE, TRUE, TRUE), Salon(FALSE, TRUE, TRUE, FALSE)} :
          salons = [s \in SalonIDs |-> IF s = "s1" THEN r1 ELSE r2]
    /\ customers = [c \in CustIDs |->
          IF c = "c1" THEN Customer("s1", TRUE, Plus1, Asha, InWindow, InWindow)
          ELSE Customer("s2", TRUE, Local1, Bo, InWindow, InWindow)]
    /\ \E tb \in {<<>>, <<Template(TRUE, HappyBirthday)>>} :
          templates = [k \in SalonIDs \X Categories |->
              IF k = <<"s1", "birthday">> THEN tb ELSE DefaultTemplates[k]]
    /\ armed = 0
    /\ runs = <<>>
    /\ trace = <<>>

NextRun ==
    \/ /\ runs = <<>>
       /\ \E plan \in RunPlans(RunFaultKeys) \cup {NoPlan}, order \in Orders(ActiveUsers) :
             CallSendDailyReminders(plan, order)
    \/ \E r \in DOMAIN runs : LoopStep(r)

SpecRun ==
    InitRun /\ [][NextRun]_vars

-----------------------------------------------------------------------------
(* Claims about one execution of SendDailyReminders *)

Done(r) ==
    runs[r].pc = "done"

\* the users query of execution r succeeded: the loop was entered
UsersOk(r) ==
    \E i \in DOMAIN trace : trace[i].kind = "users" /\ trace[i].run = r /\ trace[i].ok

\* the tenants with at least one active user
TenantsWithActiveUser ==
    {s \in SalonIDs : \E u \in UserIDs : users[u].active /\ users[u].salon = s}

\* the invocations of ProcessSalonReminders(s) in execution r: each starts with the
\* lookup of the tenant row
Invocations(r, s) ==
    Len(EventsOf("salon", r, s, NoID))

\* everything execution r issued for tenant s
TenantEvents(r, s) ==
    SelectSeq(trace, LAMBDA e : e.run = r /\ e.salon = s)

\* the processing of tenant s failed in execution r: tenant row missing or not read,
\* a customer lookup failed, or no active template was found
TenantFailed(r, s) ==
    \E i \in DOMAIN trace :
        /\ trace[i].run = r /\ trace[i].salon = s
        /\ trace[i].kind \in {"salon", "customers", "template"}
        /\ ~trace[i].ok

\* the faults that concern tenant s
OwnKeys(s) ==
    {FaultSalon(s)}
    \cup {FaultCustomers(s, cat) : cat \in Categories}
    \cup {FaultTemplate(s, cat) : cat \in Categories}
    \cup {FaultSend(c, cat) : c \in {x \in CustIDs : customers[x].salon = s},
                              cat \in Categories}

\* C5: in an execution whose users query returned, ProcessSalonReminders is invoked
\* exactly once for every tenant with an active user and never for any other tenant,
\* whatever the number and order of the users; at no point of an execution is a tenant
\* invoked twice.
C5_Dedup ==
    \A r \in DOMAIN runs : \A s \in SalonIDs :
        /\ Invocations(r, s) <= 1
        /\ s \notin TenantsWithActiveUser => Invocations(r, s) = 0
        /\ (Done(r) /\ UsersOk(r) /\ s \in TenantsWithActiveUser) => Invocations(r, s) = 1

\* two active users of one tenant were returned, its second user after the user of
\* another tenant, and the execution is over
C5_Witness ==
    \E r \in DOMAIN runs :
        /\ Done(r) /\ UsersOk(r)
        /\ Len(runs[r].queue) = 3
        /\ runs[r].queue[1] = runs[r].queue[3]
        /\ runs[r].queue[1] # runs[r].queue[2]

\* C3: when the processing of tenant A fails in an execution, every other tenant B with
\* an active user is processed in it, and what is issued for B is what B's own data
\* and B's own faults give: nothing of A's failure reaches B.
C3_TenantIsolation ==
    \A r \in DOMAIN runs :
        (Done(r) /\ UsersOk(r)) =>
            \A A \in TenantsWithActiveUser, B \in TenantsWithActiveUser :
                (A # B /\ TenantFailed(r, A)) =>
                    /\ Invocations(r, B) = 1
                    /\ TenantEvents(r, B) =
                          ProcessSalonReminders(r, B,
                              Plan(runs[r].plan.faults \cap OwnKeys(B), runs[r].plan.rev))

\* tenant s1 failed first, and tenant s2 then got its send requests
C3_Witness ==
    \E r \in DOMAIN runs :
        /\ Done(r)
        /\ TenantFailed(r, "s1")
        /\ \E i, j \in DOMAIN trace :
              /\ i < j
              /\ trace[i].run = r /\ trace[i].salon = "s1" /\ ~trace[i].ok
              /\ trace[j].run = r /\ trace[j].salon = "s2" /\ trace[j].kind = "send"

\* no tenant was processed in execution r
NoTenantProcessed(r) ==
    \A s \in SalonIDs : Invocations(r, s) = 0

\* send requests without their outcome
RECURSIVE Requests(_)
Requests(evs) ==
    IF evs = <<>> THEN <<>>
    ELSE <<[Head(evs) EXCEPT !.ok = TRUE]>> \o Requests(Tail(evs))

\* the send requests a fault-free processing of (tenant, category) issues
FaultFreeRequests(r, s, cat) ==
    SelectSeq(ProcessSalonReminders(r, s, Plan({}, runs[r].plan.rev)),
              LAMBDA e : e.kind = "send" /\ e.cat = cat)

\* C7 as stated: an execution over a data store with active users processes no tenant
\* only when the gateway credentials are missing.
C7_OnlyCredentials ==
    \A r \in DOMAIN runs :
        (Done(r) /\ TenantsWithActiveUser # {} /\ NoTenantProcessed(r)) => ~client

\* C7, amended: an execution over a data store with active users processes no tenant
\* only when the gateway credentials are missing or the active-users query fails; any
\* other failure leaves the send requests of every (tenant, category) unit it does not
\* concern as they are without failures.
C7_FailureLocality ==
    \A r \in DOMAIN runs :
        /\ (Done(r) /\ TenantsWithActiveUser # {} /\ NoTenantProcessed(r))
              => (~client \/ ~UsersOk(r))
        /\ (Done(r) /\ UsersOk(r)) =>
              \A s \in TenantsWithActiveUser, cat \in Categories :
                  ({FaultSalon(s), FaultCustomers(s, cat), FaultTemplate(s, cat)}
                        \cap runs[r].plan.faults = {})
                      => Requests(EventsOf("send", r, s, cat)) = FaultFreeRequests(r, s, cat)

\* a customer lookup of tenant s1 failed, one unit of s1 and one of s2 still got their
\* requests
C7_Witness ==
    \E r \in DOMAIN runs :
        /\ Done(r) /\ UsersOk(r)
        /\ FaultCustomers("s1", "birthday") \in runs[r].plan.faults
        /\ EventsOf("customers", r, "s1", "birthday") # <<>>
        /\ EventsOf("send", r, "s1", "anniversary") # <<>>
        /\ EventsOf("send", r, "s2", "birthday") # <<>>

-----------------------------------------------------------------------------
(* Specification Spec: the scheduler, the clock and concurrent executions *)

\* a faulty variant of StartScheduler: a startup that finds an earlier startup run
\* arms its trigger but does not run again
StartSchedulerOncePerProcess(plan, order) ==
    IF ~client
    THEN /\ plan = NoPlan
         /\ Len(SelectSeq(trace, LAMBDA e : e.kind = "log_not_started")) < MaxRuns
         /\ trace' = Append(trace, Ev("log_not_started", 0, NoID, NoID, TRUE))
         /\ UNCHANGED <<env, client, today, past9, dbvars, armed, runs>>
    ELSE IF \E r \in DOMAIN runs : runs[r].kind = "startup"
    THEN /\ Len(armed) < MaxRuns
         /\ armed' = Append(armed, past9)
         /\ UNCHANGED <<env, client, today, past9, dbvars, runs, trace>>
    ELSE /\ Len(runs) < MaxRuns
         /\ armed' = Append(armed, past9)
         /\ BeginRun("startup", plan, order)
         /\ UNCHANGED <<env, client, today, past9, dbvars>>

\* StartScheduler: a no-op without a client; else a new cron scheduler with the entry
\* "0 9 * * *" is started and SendDailyReminders is called in the caller's goroutine.
\* A scheduler started after 09:00 has its next trigger tomorrow.
StartScheduler(plan, order) ==
    IF ~client
    THEN /\ plan = NoPlan
         /\ Len(SelectSeq(trace, LAMBDA e : e.kind = "log_not_started")) < MaxRuns
         /\ trace' = Append(trace, Ev("log_not_started", 0, NoID, NoID, TRUE))
         /\ UNCHANGED <<env, client, today, past9, dbvars, armed, runs>>
    ELSE /\ Len(runs) < MaxRuns
         /\ armed' = Append(armed, past9)
         /\ BeginRun("startup", plan, order)
         /\ UNCHANGED <<env, client, today, past9, dbvars>>

\* the wall clock reaches 09:00
Clock9 ==
    /\ ~past9
    /\ past9' = TRUE
    /\ UNCHANGED <<env, client, today, dbvars, armed, runs, trace>>

\* the trigger of cron scheduler c fires: the cron library starts the job in a new
\* goroutine, whatever else is running
CronFire(c, plan, order) ==
    /\ c \in DOMAIN armed
    /\ past9 /\ ~armed[c]
    /\ Len(runs) < MaxRuns
    /\ armed' = [armed EXCEPT ![c] = TRUE]
    /\ BeginRun("cron", plan, order)
    /\ UNCHANGED <<env, client, today, past9, dbvars>>

\* the wall clock passes midnight, every trigger of the day having fired
Midnight ==
    /\ past9
    /\ \A c \in DOMAIN armed : armed[c]
    /\ DateToAbs(today.y, today.m, today.d) - DateToAbs(YearEnd.y, YearEnd.m, YearEnd.d) < MaxDays
    /\ today' = AddDate(today, 1)
    /\ past9' = FALSE
    /\ armed' = [c \in DOMAIN armed |-> FALSE]
    /\ UNCHANGED <<env, client, dbvars, runs, trace>>

\* the faults an execution of Spec can meet: none, the executions differ in their
\* start and their interleaving
SchedFaultKeys ==
    {}

Init ==
    /\ today = YearEnd
    /\ past9 = FALSE
    /\ env \in {DefaultEnv} \cup Unconfigured
    /\ client = NewReminderService(env)
    /\ \E a1 \in BOOLEAN :
          users = [u \in UserIDs |->
              IF u = "u1" THEN [salon |-> "s1", active |-> a1]
              ELSE IF u = "u2" THEN [salon |-> "s2", active |-> FALSE]
              ELSE [salon |-> "s1", active |-> TRUE]]
    /\ salons = [s \in SalonIDs |-> IF s = "s1" THEN Salon(TRUE, TRUE, TRUE, FALSE)
                                    ELSE Salon(FALSE, TRUE, TRUE, TRUE)]
    /\ customers = [c \in CustIDs |->
          IF c = "c1" THEN Customer("s1", TRUE, Plus1, Asha, InWindow, InWindow)
          ELSE Customer("s2", TRUE, Local1, Bo, [m |-> 1, d |-> 5], NULL)]
    /\ templates = DefaultTemplates
    /\ armed = <<>>
    /\ runs = <<>>
    /\ trace = <<>>

Next ==
    \/ \E plan \in RunPlans(SchedFaultKeys), order \in Orders(ActiveUsers) :
          StartScheduler(plan, order)
    \/ \E plan \in RunPlans(SchedFaultKeys), order \in Orders(ActiveUsers) :
          /\ Len(runs) < MaxRuns
          /\ CallSendDailyReminders(plan, order)
    \/ Clock9
    \/ \E c \in DOMAIN armed, plan \in RunPlans(SchedFaultKeys), order \in Orders(ActiveUsers) :
          CronFire(c, plan, order)
    \/ Midnight
    \/ \E r \in DOMAIN runs : LoopStep(r)

Spec ==
    Init /\ [][Next]_vars

-----------------------------------------------------------------------------
(* Claims about the scheduler *)

\* the executions of SendDailyReminders in progress
InProgress ==
    {r \in DOMAIN runs : runs[r].pc # "done"}

\* C4: at no time are two executions of SendDailyReminders in progress: with one
\* StartScheduler call, neither its startup run together with a run fired by the cron
\* trigger, nor two runs fired by the trigger.
C4_NoOverlap ==
    Len(armed) <= 1 =>
        Cardinality({r \in InProgress : runs[r].kind \in {"startup", "cron"}}) <= 1

\* the account identifier and the auth secret are both present
CredentialsPresent ==
    /\ ~IsBlank(env.TWILIO_ACCOUNT_SID)
    /\ ~IsBlank(env.TWILIO_AUTH_TOKEN)

\* C10: without gateway credentials StartScheduler arms no trigger and starts no run,
\* SendDailyReminders performs no data-store query, and no send request is issued,
\* whatever calls of StartScheduler and SendDailyReminders are made.
C10_Unconfigured ==
    ~CredentialsPresent =>
        /\ armed = <<>>
        /\ \A r \in DOMAIN runs : runs[r].kind = "direct" /\ runs[r].pc = "done"
        /\ \A i \in DOMAIN trace :
              trace[i].kind \notin {"users", "salon", "customers", "template", "send"}

\* without credentials (a blank account identifier), StartScheduler and
\* SendDailyReminders have both been called
C10_Witness ==
    /\ IsBlank(env.TWILIO_ACCOUNT_SID) /\ env.TWILIO_ACCOUNT_SID # <<>>
    /\ \E i \in DOMAIN trace : trace[i].kind = "log_not_started"
    /\ \E r \in DOMAIN runs : runs[r].kind = "direct"

\* the startup executions: the ones StartScheduler itself called
Startups ==
    {r \in DOMAIN runs : runs[r].kind = "startup"}

\* a send request as the gateway sees it: without the execution that issued it
RECURSIVE Batch(_)
Batch(evs) ==
    IF evs = <<>> THEN <<>>
    ELSE <<[channel |-> Head(evs).channel, to |-> Head(evs).to,
            from |-> Head(evs).from, body |-> Head(evs).body]>> \o Batch(Tail(evs))

\* the send requests of execution r, in the order they were issued
SendsOf(r) ==
    SelectSeq(trace, LAMBDA e : e.kind = "send" /\ e.run = r)

\* C11: with credentials, every StartScheduler call arms one trigger and fires one
\* immediate run, whatever ran or started before; the startup runs that finished on
\* one calendar day over unchanged data issued identical batches of send requests.
C11_EveryStartupRuns ==
    client =>
        /\ Len(armed) = Cardinality(Startups)
        /\ today = YearEnd =>
              \A r1 \in Startups, r2 \in Startups :
                  (Done(r1) /\ Done(r2)) => Batch(SendsOf(r1)) = Batch(SendsOf(r2))

\* two startups on the first day, both finished, each with a non-empty batch
C11_Witness ==
    /\ today = YearEnd
    /\ Cardinality(Startups) = 2
    /\ \A r \in Startups : Done(r) /\ SendsOf(r) # <<>>

-----------------------------------------------------------------------------
(* Claims about the requests of one execution *)

\* the send requests of execution r for customer c in category cat, whatever the tenant
CustomerSends(r, c, cat) ==
    SelectSeq(trace, LAMBDA e : e.kind = "send" /\ e.run = r /\ e.cust = c /\ e.cat = cat)

\* C12: within one execution of SendDailyReminders at most one send request is issued
\* per (customer, category), on one channel: never a WhatsApp and an SMS request for
\* the same customer and category.
C12_NoFanOut ==
    \A r \in DOMAIN runs : \A c \in CustIDs, cat \in Categories :
        LET sends == CustomerSends(r, c, cat)
        IN  /\ Len(sends) <= 1
            /\ \A i \in DOMAIN sends : sends[i].channel \in {"whatsapp", "sms"}

\* an execution over two users of one tenant is over; a customer eligible for both
\* channels got its request in both categories, on WhatsApp
C12_Witness ==
    \E r \in DOMAIN runs :
        /\ Done(r)
        /\ \E i, j \in DOMAIN runs[r].queue : i # j /\ runs[r].queue[i] = runs[r].queue[j]
        /\ \E c \in CustIDs :
              /\ salons[customers[c].salon].SMSNotifications /\ SMSSenderConfigured
              /\ \A cat \in Categories :
                    /\ Len(CustomerSends(r, c, cat)) = 1
                    /\ CustomerSends(r, c, cat)[1].channel = "whatsapp"

-----------------------------------------------------------------------------
(* Specification SpecContent: ProcessSalonReminders over templates, names, phones *)
(* and sender values                                                           *)

\* a message as literal pieces and name slots; the empty piece is a slot
RECURSIVE Fill(_, _)
Fill(pieces, slot) ==
    IF pieces = <<>> THEN <<>>
    ELSE (IF Head(pieces) = <<>> THEN slot ELSE Head(pieces)) \o Fill(Tail(pieces), slot)

\* template shapes: one slot, no slot, two slots, a slot alone, a bracket that is not
\* the placeholder
MessageShapes ==
    {<<<<"H", "B", " ">>, <<>>, <<"!">>>>,
     <<<<"H", "i">>>>,
     <<<<>>, <<" ">>, <<>>>>,
     <<<<>>>>,
     <<<<"[", "C", "]">>, <<>>>>}

\* the anniversary template of every tenant, as pieces
AnniversaryShape ==
    <<<<"H", "A", " ">>, <<>>>>

\* the values TWILIO_WHATSAPP_NUMBER can carry for the sender +2
SenderSpellings ==
    {Plus2, WhatsAppPrefix \o Plus2, <<" ">> \o WhatsAppPrefix \o Plus2 \o <<" ">>}

InitContent ==
    /\ today = YearEnd
    /\ past9 = FALSE
    /\ \E wa \in BOOLEAN, sms \in BOOLEAN :
          /\ wa \/ sms
          /\ salons = [s \in SalonIDs |-> IF s = "s1" THEN Salon(wa, sms, TRUE, TRUE)
                                          ELSE Salon(TRUE, TRUE, TRUE, TRUE)]
    /\ \E w \in SenderSpellings : env = Env(<<"A", "C">>, <<"t">>, Plus2, w)
    /\ client = NewReminderService(env)
    /\ users = DefaultUsers
    /\ \E p1 \in {Plus1, Local1} :
          customers = [c \in CustIDs |->
              IF c = "c1" THEN Customer("s1", TRUE, p1, Asha, InWindow, NULL)
              ELSE Customer("s1", TRUE, Plus1, Bo, InWindow, InWindow)]
    /\ \E shape \in MessageShapes :
          templates = [k \in SalonIDs \X Categories |->
              IF k = <<"s1", "birthday">> THEN <<Template(TRUE, Fill(shape, Placeholder))>>
              ELSE DefaultTemplates[k]]
    /\ armed = 0
    /\ runs = <<>>
    /\ trace = <<>>

SpecContent ==
    InitContent /\ [][NextTenant]_vars

\* the shape of a stored message
ShapeOf(message) ==
    CHOOSE shape \in MessageShapes \cup {AnniversaryShape} :
        Fill(shape, Placeholder) = message

\* the stored message of the one template of (tenant, category)
StoredMessage(salonID, cat) ==
    templates[<<salonID, cat>>][1].message

\* C13: every send request carries the template message with each placeholder slot
\* filled by the customer's name (a message without a slot unchanged); on WhatsApp
\* to = "whatsapp:" + phone and from = "whatsapp:" + sender, the same sender whether
\* or not the configured value carries the prefix; on SMS to = phone and from = the
\* SMS sender. A WhatsApp-only tenant with phone +1 and an in-window birthday gets
\* exactly one request, to "whatsapp:+1".
C13_Content ==
    /\ \A i \in DOMAIN trace :
          trace[i].kind = "send" =>
              LET e == trace[i]
                  c == customers[e.cust]
              IN  /\ e.body = Fill(ShapeOf(StoredMessage(e.salon, e.cat)), c.name)
                  /\ e.channel = "whatsapp" =>
                        /\ e.to = WhatsAppPrefix \o c.phone
                        /\ e.from = WhatsAppPrefix \o Plus2
                  /\ e.channel = "sms" =>
                        /\ e.to = c.phone
                        /\ e.from = Plus2
                  /\ e.channel \in {"whatsapp", "sms"}
    /\ \A r \in DOMAIN runs :
          (/\ runs[r].plan.faults = {}
           /\ salons["s1"].WhatsAppNotifications /\ ~salons["s1"].SMSNotifications
           /\ customers["c1"].phone = Plus1)
            => /\ Len(SendsTo(r, "s1", "birthday", "c1")) = 1
               /\ SendsTo(r, "s1", "birthday", "c1")[1].to = <<"w", "h", "a", "t", "s", "a", "p", "p", ":", "+", "1">>

\* a WhatsApp request whose sender was configured without the prefix and whose
\* template has two slots, and an SMS request in the same batch
C13_Witness ==
    /\ env.TWILIO_WHATSAPP_NUMBER = Plus2
    /\ StoredMessage("s1", "birthday") = Placeholder \o <<" ">> \o Placeholder
    /\ \E i, j \in DOMAIN trace :
          /\ trace[i].kind = "send" /\ trace[i].channel = "whatsapp"
          /\ trace[i].body = Bo \o <<" ">> \o Bo
          /\ trace[j].kind = "send" /\ trace[j].channel = "sms"
          /\ trace[j].cat = "birthday"

-----------------------------------------------------------------------------
(* The ad-hoc test send: SendTestMessage and the handler SendTestNotification *)

\* channel selectors a caller can pass
SMSChannel ==
    <<"s", "m", "s">>

WhatsAppChannel ==
    <<"w", "h", "a", "t", "s", "a", "p", "p">>

\* strings.ToLower on one character, for the letters the inputs use
LowerChar(c) ==
    CASE c = "S" -> "s" [] c = "M" -> "m" [] OTHER -> c

\* strings.ToLower
ToLower(s) ==
    [k \in DOMAIN s |-> LowerChar(s[k])]

\* the gateway failing on the test request
FaultTestSend ==
    <<"send", NoID, "test">>

\* the template query of the handler failing
FaultTestTemplates(s) ==
    <<"templates", s, "test">>

\* the error SendTestMessage returns, or nil
Return(run, err) ==
    Ev("return", run, NoID, err, err = "nil")

\* a faulty variant of SendTestMessage: a missing sender of the selected channel
\* falls back to the other channel's sender
SendTestMessageAnySender(cl, run, phone, body, channel, faults) ==
    LET fromSMS == FromSMS
        fromWhatsApp == FromWhatsApp
        from == IF fromWhatsApp # <<>> THEN WhatsAppPrefix \o fromWhatsApp ELSE fromSMS
        req == [Ev("send", run, NoID, NoID, FaultTestSend \notin faults)
                    EXCEPT !.body = body, !.from = from]
        result == Return(run, IF FaultTestSend \in faults THEN "gateway" ELSE "nil")
    IN  IF ~cl THEN <<Return(run, "not_configured")>>
        ELSE IF channel \notin {WhatsAppChannel, SMSChannel} THEN <<Return(run, "channel")>>
        ELSE IF from = <<>> THEN <<Return(run, "sender_not_set")>>
        ELSE IF channel = WhatsAppChannel
             THEN <<[req EXCEPT !.channel = "whatsapp", !.to = WhatsAppPrefix \o phone],
                    result>>
        ELSE <<[req EXCEPT !.channel = "sms", !.to = phone], result>>

\* SendTestMessage(phone, body, channel) on a service whose client is cl: the gateway
\* request it issues, if any, and what it returns
SendTestMessage(cl, run, phone, body, channel, faults) ==
    LET fromSMS == FromSMS
        fromWhatsApp == FromWhatsApp
        req == [Ev("send", run, NoID, NoID, FaultTestSend \notin faults)
                    EXCEPT !.body = body]
        result == Return(run, IF FaultTestSend \in faults THEN "gateway" ELSE "nil")
    IN  IF ~cl THEN <<Return(run, "not_configured")>>
        ELSE IF channel = WhatsAppChannel
             THEN IF fromWhatsApp = <<>> THEN <<Return(run, "whatsapp_not_set")>>
                  ELSE <<[req EXCEPT !.channel = "whatsapp",
                                     !.to = WhatsAppPrefix \o phone,
                                     !.from = WhatsAppPrefix \o fromWhatsApp],
                         result>>
        ELSE IF channel = SMSChannel
             THEN IF fromSMS = <<>> THEN <<Return(run, "sms_not_set")>>
                  ELSE <<[req EXCEPT !.channel = "sms", !.to = phone, !.from = fromSMS],
                         result>>
        ELSE <<Return(run, "channel")>>

\* the literal "Test Customer"
TestCustomer ==
    <<"T", "e", "s", "t", " ", "C", "u", "s", "t", "o", "m", "e", "r">>

\* the literal "Test reminder from SalonPro - [CustomerName]"
DefaultTestBody ==
    <<"Test reminder from SalonPro - ">> \o Placeholder

\* Where("salon_id = ? AND is_active = true").Find(&templates), the rows of one type
ActiveOfType(salonID, type, rev) ==
    LET rows == SelectSeq(templates[<<salonID, type>>], LAMBDA t : t.active)
    IN  IF rev THEN Reverse(rows) ELSE rows

\* the loop "for _, t := range templates": the first row of the type with a message
FirstMessage(rows) ==
    LET filled == SelectSeq(rows, LAMBDA t : t.message # <<>>)
    IN  IF filled = <<>> THEN <<>>
        ELSE ReplaceAll(filled[1].message, Placeholder, TestCustomer)

\* a faulty variant of TemplateBody: the anniversary template is looked at first
TemplateBodyAnniversaryFirst(salonID, rev) ==
    LET birthday == FirstMessage(ActiveOfType(salonID, "birthday", rev))
        anniversary == FirstMessage(ActiveOfType(salonID, "anniversary", rev))
    IN  IF anniversary # <<>> THEN anniversary
        ELSE IF birthday # <<>> THEN birthday
        ELSE DefaultTestBody

\* the body of a test notification that carries no message
TemplateBody(salonID, rev) ==
    LET birthday == FirstMessage(ActiveOfType(salonID, "birthday", rev))
        anniversary == FirstMessage(ActiveOfType(salonID, "anniversary", rev))
    IN  IF birthday # <<>> THEN birthday
        ELSE IF anniversary # <<>> THEN anniversary
        ELSE DefaultTestBody

\* the HTTP response of the handler
Respond(run, salonID, status, phone, body) ==
    [Ev("respond", run, salonID, status, status = "200") EXCEPT !.to = phone, !.body = body]

\* the handler SendTestNotification: its query, the gateway request and the response
SendTestNotification(run, salonID, input, plan) ==
    LET channel == ToLower(TrimSpace(input.channel))
        phone == TrimSpace(input.phone)
        message == TrimSpace(input.message)
        queryOk == FaultTestTemplates(salonID) \notin plan.faults
        body == IF message # <<>> THEN message ELSE TemplateBody(salonID, plan.rev)
        query == IF message # <<>> THEN <<>> ELSE <<Ev("templates", run, salonID, NoID, queryOk)>>
        sent == SendTestMessage(NewReminderService(env), run, phone, body, channel, plan.faults)
    IN  IF input.phone = <<>> \/ input.channel = <<>>
        THEN <<Respond(run, salonID, "400", <<>>, <<>>)>>
        ELSE IF channel \notin {SMSChannel, WhatsAppChannel}
        THEN <<Respond(run, salonID, "400", <<>>, <<>>)>>
        ELSE IF phone = <<>>
        THEN <<Respond(run, salonID, "400", <<>>, <<>>)>>
        ELSE IF message = <<>> /\ salonID = NoID
        THEN <<Respond(run, salonID, "401", <<>>, <<>>)>>
        ELSE IF message = <<>> /\ ~queryOk
        THEN query \o <<Respond(run, salonID, "500", <<>>, <<>>)>>
        ELSE IF ~sent[Len(sent)].ok
        THEN query \o sent \o <<Respond(run, salonID, "500", <<>>, <<>>)>>
        ELSE query \o sent \o <<Respond(run, salonID, "200", phone, body)>>

\* the request body of the handler
TestNotificationInput(phone, message, channel) ==
    [phone |-> phone, message |-> message, channel |-> channel]

\* a call of SendTestMessage on the service
CallSendTestMessage(phone, body, channel, plan) ==
    LET r == Len(runs) + 1
    IN  /\ runs' = Append(runs, Run("test_message", "done", <<phone, body, channel>>, 1, {}, plan))
        /\ trace' = trace \o SendTestMessage(client, r, phone, body, channel, plan.faults)
        /\ UNCHANGED <<env, client, today, past9, dbvars, armed>>

\* a request POST /auth/profile/test-notification of a user of tenant salonID
CallSendTestNotification(salonID, input, plan) ==
    LET r == Len(runs) + 1
    IN  /\ runs' = Append(runs, Run("test_notification", "done",
                                    <<input.phone, input.message, input.channel>>,
                                    1, {salonID}, plan))
        /\ trace' = trace \o SendTestNotification(r, salonID, input, plan)
        /\ UNCHANGED <<env, client, today, past9, dbvars, armed>>

-----------------------------------------------------------------------------
(* Specification SpecTest: one test send on every configuration *)

TestPhones ==
    {Empty, Blank, Plus1, SpacePlus1}

TestMessages ==
    {Empty, Blank, OtherMessage, <<" ">> \o OtherMessage, HappyBirthday}

TestChannels ==
    {Empty, SMSChannel, WhatsAppChannel, <<"S", "M", "S">>, <<" ">> \o SMSChannel,
     <<"f", "a", "x">>}

TestPlans(salonID) ==
    {Plan(F, rev) : F \in SUBSET {FaultTestSend, FaultTestTemplates(salonID)}, rev \in BOOLEAN}

\* a template with two slots
TwoSlots ==
    Placeholder \o <<" ">> \o Placeholder

InitTest ==
    /\ today = YearEnd
    /\ past9 = FALSE
    /\ \E sid \in {<<"A", "C">>, Blank}, p \in {Empty, Plus2},
          w \in {Empty, WhatsAppPrefix, WhatsAppPrefix \o Plus2} :
          env = Env(sid, <<"t">>, p, w)
    /\ client = NewReminderService(env)
    /\ users = DefaultUsers
    /\ salons = DefaultSalons
    /\ customers = [c \in CustIDs |-> Customer("s1", TRUE, Plus1, Asha, InWindow, NULL)]
    /\ \E tb \in {<<>>, <<Template(TRUE, HappyBirthday)>>, <<Template(FALSE, HappyBirthday)>>,
                  <<Template(TRUE, Empty)>>,
                  <<Template(TRUE, TwoSlots), Template(TRUE, OtherMessage)>>},
          ta \in {<<>>, <<Template(TRUE, HappyAnniversary)>>} :
          templates = [k \in SalonIDs \X Categories |->
              IF k[1] # "s1" THEN DefaultTemplates[k]
              ELSE IF k[2] = "birthday" THEN tb ELSE ta]
    /\ armed = 0
    /\ runs = <<>>
    /\ trace = <<>>

NextTest ==
    \/ /\ runs = <<>>
       /\ \E phone \in TestPhones, body \in TestMessages, channel \in TestChannels,
             plan \in TestPlans(NoID) :
             CallSendTestMessage(phone, body, channel, plan)
    \/ /\ runs = <<>>
       /\ \E salonID \in {"s1", NoID} :
          \E phone \in TestPhones, message \in TestMessages, channel \in TestChannels,
             plan \in TestPlans(salonID) :
             CallSendTestNotification(salonID, TestNotificationInput(phone, message, channel),
                                      plan)

SpecTest ==
    InitTest /\ [][NextTest]_vars

\* what SendTestMessage returned in call r
ReturnsOf(r) ==
    SelectSeq(trace, LAMBDA e : e.kind = "return" /\ e.run = r)

\* the direct calls of SendTestMessage
TestMessageCalls ==
    {r \in DOMAIN runs : runs[r].kind = "test_message"}

\* a call with these arguments is refused: no client, an unknown channel, or no sender
\* for the selected channel
Refused(channel) ==
    \/ ~CredentialsPresent
    \/ channel \notin {SMSChannel, WhatsAppChannel}
    \/ channel = WhatsAppChannel /\ ~WhatsAppSenderConfigured
    \/ channel = SMSChannel /\ ~SMSSenderConfigured

\* C14: SendTestMessage returns an error and issues no gateway request when the client
\* is unconfigured, the channel is neither "sms" nor "whatsapp", or the sender of the
\* selected channel is not configured; otherwise it issues exactly one request, to
\* "whatsapp:" + phone on WhatsApp and to the raw phone on SMS, and returns the
\* gateway's success or error.
C14_TestSend ==
    \A r \in TestMessageCalls :
        LET phone == runs[r].queue[1]
            body == runs[r].queue[2]
            channel == runs[r].queue[3]
            sends == SendsOf(r)
            returns == ReturnsOf(r)
        IN  /\ Len(returns) = 1
            /\ Refused(channel) => sends = <<>> /\ ~returns[1].ok
            /\ ~Refused(channel) =>
                  /\ Len(sends) = 1
                  /\ sends[1].body = body
                  /\ sends[1].to = IF channel = WhatsAppChannel THEN WhatsAppPrefix \o phone
                                   ELSE phone
                  /\ returns[1].ok = sends[1].ok

\* an SMS test send without a WhatsApp sender reached the gateway and failed there,
\* and a WhatsApp test send without an SMS sender
C14_Witness ==
    \E r \in TestMessageCalls :
        /\ SendsOf(r) # <<>>
        /\ \/ /\ runs[r].queue[3] = SMSChannel /\ ~WhatsAppSenderConfigured
              /\ ~ReturnsOf(r)[1].ok
           \/ /\ runs[r].queue[3] = WhatsAppChannel /\ ~SMSSenderConfigured
              /\ ReturnsOf(r)[1].ok

\* the test notifications that were answered with success
TestNotificationsSent ==
    {r \in DOMAIN runs :
        /\ runs[r].kind = "test_notification"
        /\ \E i \in DOMAIN trace :
              trace[i].kind = "respond" /\ trace[i].run = r /\ trace[i].ok}

\* the success response of test notification r
ResponseOf(r) ==
    SelectSeq(trace, LAMBDA e : e.kind = "respond" /\ e.run = r)[1]

\* the tenant of the user who sent test notification r
TenantOf(r) ==
    CHOOSE s \in runs[r].seen : TRUE

\* the messages of the active templates of (tenant, category) that have a text, with
\* every slot filled by "Test Customer"
FilledTemplates(salonID, cat) ==
    {Fill(ShapeOf(templates[<<salonID, cat>>][k].message), TestCustomer) :
        k \in {j \in DOMAIN templates[<<salonID, cat>>] :
                  /\ templates[<<salonID, cat>>][j].active
                  /\ templates[<<salonID, cat>>][j].message # <<>>}}

\* the bodies the templates of a tenant give: birthday preferred, anniversary otherwise
PreferredTemplates(salonID) ==
    IF salonID = NoID THEN {}
    ELSE IF FilledTemplates(salonID, "birthday") # {} THEN FilledTemplates(salonID, "birthday")
    ELSE FilledTemplates(salonID, "anniversary")

\* body is message without its leading and trailing white space
Stripped(message, body) ==
    /\ body # <<>>
    /\ ~IsSpace(body[1]) /\ ~IsSpace(body[Len(body)])
    /\ \E i \in 1..Len(message) :
          /\ SubSeq(message, i, i + Len(body) - 1) = body
          /\ IsBlank(SubSeq(message, 1, i - 1))
          /\ IsBlank(SubSeq(message, i + Len(body), Len(message)))

\* C16 as stated: with an omitted or empty message the body sent is an active template
\* message of the tenant, birthday preferred, with every placeholder replaced by
\* "Test Customer"; a supplied message is sent as the body; the body of the success
\* response is the body passed to the gateway.
C16_BodyAsStated ==
    \A r \in TestNotificationsSent :
        LET message == runs[r].queue[2]
            sends == SendsOf(r)
        IN  /\ Len(sends) = 1
            /\ ResponseOf(r).body = sends[1].body
            /\ message = <<>> => sends[1].body \in PreferredTemplates(TenantOf(r))
            /\ message # <<>> => sends[1].body = message

\* C16, amended: the message is stripped of surrounding white space; if nothing is
\* left the body is an active template message with a text, birthday preferred, with
\* every placeholder replaced by "Test Customer", or the fixed default text with its
\* placeholder kept when the tenant has no such template; otherwise the stripped
\* message is the body; the body of the success response is the body passed to the
\* gateway.
C16_BodyResolution ==
    \A r \in TestNotificationsSent :
        LET message == runs[r].queue[2]
            sends == SendsOf(r)
            candidates == PreferredTemplates(TenantOf(r))
        IN  /\ Len(sends) = 1
            /\ ResponseOf(r).body = sends[1].body
            /\ IsBlank(message) =>
                  IF candidates # {} THEN sends[1].body \in candidates
                  ELSE sends[1].body = DefaultTestBody
            /\ ~IsBlank(message) => Stripped(message, sends[1].body)

\* a test notification without a message was sent with the anniversary template, the
\* tenant's only active birthday template having no text
C16_Witness ==
    \E r \in TestNotificationsSent :
        /\ runs[r].queue[2] = <<>>
        /\ templates[<<"s1", "birthday">>] = <<Template(TRUE, Empty)>>
        /\ ResponseOf(r).body = <<"H", "A", " ">> \o TestCustomer

-----------------------------------------------------------------------------
(* The profile handler UpdateSalonProfile *)

\* a salon row with its profile columns
SalonProfile(salon, name, address) ==
    [present |-> salon.present,
     WhatsAppNotifications |-> salon.WhatsAppNotifications,
     SMSNotifications |-> salon.SMSNotifications,
     BirthdayReminders |-> salon.BirthdayReminders,
     AnniversaryReminders |-> salon.AnniversaryReminders,
     name |-> name, address |-> address]

\* a user row with its contact columns
UserContact(salonID, active, phone, email) ==
    [salon |-> salonID, active |-> active, phone |-> phone, email |-> email]

UpdateSalonProfileInput(name, address, phone, email) ==
    [SalonName |-> name, Address |-> address, Phone |-> phone, Email |-> email]

\* the update of the salons table failing
FaultUpdateSalon ==
    <<"update_salon", NoID, NoID>>

\* the update of the users table failing
FaultUpdateUser ==
    <<"update_user", NoID, NoID>>

\* First(&existingUser) WHERE email = ? AND id <> ?
EmailInUse(userID, email) ==
    \E u \in UserIDs \ {userID} : users[u].email = email

\* the handler UpdateSalonProfile for the user userID of tenant salonID (NoID: the
\* request context carries no salon): the salon row is updated first, then the email
\* is checked, then the user row is updated
UpdateSalonProfile(userID, salonID, input, faults) ==
    LET r == Len(runs) + 1
        salonUpdated == [s \in SalonIDs |->
                            IF s = salonID THEN [salons[s] EXCEPT !.name = input.SalonName,
                                                                  !.address = input.Address]
                            ELSE salons[s]]
        userUpdated == [users EXCEPT ![userID].phone = input.Phone,
                                      ![userID].email = input.Email]
        status == IF salonID = NoID THEN "401"
                  ELSE IF FaultUpdateSalon \in faults THEN "500"
                  ELSE IF EmailInUse(userID, input.Email) THEN "409"
                  ELSE IF FaultUpdateUser \in faults THEN "500"
                  ELSE "200"
    IN  /\ salons' = IF salonID = NoID \/ FaultUpdateSalon \in faults THEN salons
                     ELSE salonUpdated
        /\ users' = IF status = "200" THEN userUpdated ELSE users
        /\ runs' = Append(runs, Run("update_profile", "done", <<userID, salonID>>, 1, {},
                                    Plan(faults, FALSE)))
        /\ trace' = Append(trace, Respond(r, salonID, status, <<>>, <<>>))
        /\ UNCHANGED <<env, client, today, past9, customers, templates, armed>>

UpdateTemplatesInput(birthday, anniversary) ==
    [BirthdayMessage |-> birthday, AnniversaryMessage |-> anniversary]

\* the update of the templates of one type failing
FaultUpdateTemplate(type) ==
    <<"update_template", NoID, type>>

\* Model(&ReminderTemplate{}).Where("salon_id = ? AND type = ?").Update("message", m):
\* every template row of the tenant and type gets the message
WithMessage(rows, message) ==
    [k \in DOMAIN rows |-> [rows[k] EXCEPT !.message = message]]

\* the handler UpdateReminderTemplates for tenant salonID: the birthday rows are
\* updated with the request's birthday message, then the anniversary rows with its
\* anniversary message; a field the request omits binds to the empty string
UpdateReminderTemplates(salonID, input, faults) ==
    LET r == Len(runs) + 1
        birthdayOk == FaultUpdateTemplate("birthday") \notin faults
        anniversaryOk == birthdayOk /\ FaultUpdateTemplate("anniversary") \notin faults
        status == IF salonID = NoID THEN "401"
                  ELSE IF ~anniversaryOk THEN "500"
                  ELSE "200"
    IN  /\ templates' = [k \in SalonIDs \X Categories |->
              IF k[1] # salonID THEN templates[k]
              ELSE IF k[2] = "birthday" /\ birthdayOk
                   THEN WithMessage(templates[k], input.BirthdayMessage)
              ELSE IF k[2] = "anniversary" /\ anniversaryOk
                   THEN WithMessage(templates[k], input.AnniversaryMessage)
              ELSE templates[k]]
        /\ runs' = Append(runs, Run("update_templates", "done",
                                    <<input.BirthdayMessage, input.AnniversaryMessage>>,
                                    1, {salonID}, Plan(faults, FALSE)))
        /\ trace' = Append(trace, Respond(r, salonID, status, <<>>, <<>>))
        /\ UNCHANGED <<env, client, today, past9, salons, users, customers, armed>>

\* a call of getUpcomingCustomers on the service
CallGetUpcomingCustomers(salonID, eventType, rev) ==
    LET r == Len(runs) + 1
        res == getUpcomingCustomers(salonID, eventType, FALSE, rev)
    IN  /\ runs' = Append(runs, Run("resolver", "done", <<salonID, eventType>>, 1, {},
                                    Plan({}, rev)))
        /\ trace' = Append(trace, [Ev("customers", r, salonID, eventType, ~res.err)
                                       EXCEPT !.rows = res.rows])
        /\ UNCHANGED <<env, client, today, past9, dbvars, armed>>

-----------------------------------------------------------------------------
(* Specification SpecApp: the pipeline, the resolver, the test send and the profile *)
(* handler called one after another and interleaved                            *)

\* the requests user u1 sends: its own email, another user's, a new one, a new one
\* with either update failing, and one without a salon in its context
ProfileRequests ==
    {[salon |-> "s1", email |-> "a@x", faults |-> {}],
     [salon |-> "s1", email |-> "b@x", faults |-> {}],
     [salon |-> "s1", email |-> "d@x", faults |-> {}],
     [salon |-> "s1", email |-> "d@x", faults |-> {FaultUpdateSalon}],
     [salon |-> "s1", email |-> "d@x", faults |-> {FaultUpdateUser}],
     [salon |-> NoID, email |-> "d@x", faults |-> {}]}

\* the template requests of tenant s1: the anniversary message alone, both messages,
\* and both with the second update failing
TemplateRequests ==
    {[birthday |-> Empty, anniversary |-> OtherMessage, faults |-> {}],
     [birthday |-> OtherMessage, anniversary |-> HappyAnniversary, faults |-> {}],
     [birthday |-> OtherMessage, anniversary |-> HappyAnniversary,
      faults |-> {FaultUpdateTemplate("anniversary")}]}

InitApp ==
    /\ today = YearEnd
    /\ past9 = FALSE
    /\ env = DefaultEnv
    /\ client = NewReminderService(env)
    /\ users = [u \in UserIDs |->
          IF u = "u1" THEN UserContact("s1", TRUE, Plus1, "a@x")
          ELSE IF u = "u2" THEN UserContact("s2", FALSE, Plus2, "b@x")
          ELSE UserContact("s1", FALSE, Local1, "c@x")]
    /\ salons = [s \in SalonIDs |->
          IF s = "s1" THEN SalonProfile(Salon(TRUE, TRUE, TRUE, FALSE), "Glow", "1 Main St")
          ELSE SalonProfile(Salon(FALSE, TRUE, FALSE, TRUE), "Shine", "2 High St")]
    /\ customers = [c \in CustIDs |->
          IF c = "c1" THEN Customer("s1", TRUE, Plus1, Asha, InWindow, InWindow)
          ELSE Customer("s1", TRUE, Local1, Bo, [m |-> 12, d |-> 29], NULL)]
    /\ templates = DefaultTemplates
    /\ armed = <<>>
    /\ runs = <<>>
    /\ trace = <<>>

NextApp ==
    \/ /\ Len(runs) < MaxCalls
       /\ \E order \in Orders(ActiveUsers) : CallSendDailyReminders(NoPlan, order)
    \/ \E r \in DOMAIN runs : LoopStep(r)
    \/ /\ Len(runs) < MaxCalls
       /\ CallSendTestMessage(Plus1, OtherMessage, WhatsAppChannel, NoPlan)
    \/ /\ Len(runs) < MaxCalls
       /\ \E rev \in BOOLEAN : CallGetUpcomingCustomers("s1", "birthday", rev)
    \/ /\ Len(runs) < MaxCalls
       /\ \E request \in ProfileRequests :
             UpdateSalonProfile("u1", request.salon,
                                UpdateSalonProfileInput("Glow Up", "1 Main St", Plus2,
                                                        request.email),
                                request.faults)
    \/ /\ Len(runs) < MaxCalls
       /\ \E request \in TemplateRequests :
             UpdateReminderTemplates("s1",
                                     UpdateTemplatesInput(request.birthday, request.anniversary),
                                     request.faults)
    \/ Clock9
    \/ Midnight

SpecApp ==
    InitApp /\ [][NextApp]_vars

-----------------------------------------------------------------------------
(* Claims about the application *)

\* a step of the daily pipeline, of the resolver or of SendTestMessage: an iteration of
\* a running execution, or a new call of one of them
PipelineStep ==
    \/ Len(runs') = Len(runs) /\ runs' # runs
    \/ /\ Len(runs') = Len(runs) + 1
       /\ runs'[Len(runs')].kind \in {"direct", "test_message", "resolver"}

\* C15: no step of SendDailyReminders, of the resolver or of SendTestMessage changes a
\* tenant, user, customer or template record; what they emit are gateway requests.
C15_ReadOnly ==
    [][PipelineStep => UNCHANGED dbvars]_vars

\* a daily execution ended with a send request, and a test send reached the gateway
C15_Witness ==
    /\ \E r \in DOMAIN runs : runs[r].kind = "direct" /\ Done(r) /\ SendsOf(r) # <<>>
    /\ \E r \in TestMessageCalls : SendsOf(r) # <<>>

\* the step is a request to UpdateSalonProfile that was answered with an error
ProfileUpdateRefused ==
    /\ Len(runs') = Len(runs) + 1
    /\ runs'[Len(runs')].kind = "update_profile"
    /\ ~trace'[Len(trace')].ok

\* C20: a request to UpdateSalonProfile that is answered with an error (409 for an
\* email in use, or a failed update) has changed neither the salon's name and address
\* nor the user's phone and email.
C20_AllOrNothing ==
    [][ProfileUpdateRefused => UNCHANGED <<salons, users>>]_vars

\* the direct calls of the resolver
ResolverCalls ==
    {r \in DOMAIN runs : runs[r].kind = "resolver"}

\* what resolver call r returned
Returned(r) ==
    SelectSeq(trace, LAMBDA e : e.kind = "customers" /\ e.run = r)[1]

\* a request that writes the data store was made between calls r1 and r2
DataChangedBetween(r1, r2) ==
    \E w \in DOMAIN runs :
        r1 < w /\ w < r2 /\ runs[w].kind \in {"update_profile", "update_templates"}

\* C17: two calls of getUpcomingCustomers for the same tenant and category on one
\* calendar day, with no write to the data store in between, return the same set of
\* customers, whatever ran in between (a whole execution of the pipeline included).
C17_Idempotent ==
    today = YearEnd =>
        \A r1 \in ResolverCalls, r2 \in ResolverCalls :
            (r1 < r2 /\ runs[r1].queue = runs[r2].queue /\ ~DataChangedBetween(r1, r2))
                => /\ Returned(r1).ok = Returned(r2).ok
                   /\ Range(Returned(r1).rows) = Range(Returned(r2).rows)

\* the resolver was called, a whole execution of the pipeline sent its requests, and
\* the resolver was called again with the rows coming back in the other order
C17_Witness ==
    /\ today = YearEnd
    /\ Len(runs) = 3
    /\ runs[1].kind = "resolver" /\ runs[3].kind = "resolver"
    /\ runs[2].kind = "direct" /\ Done(2) /\ SendsOf(2) # <<>>
    /\ trace[Len(trace)].run = 3
    /\ Len(Returned(1).rows) = 2
    /\ Returned(1).rows # Returned(3).rows

-----------------------------------------------------------------------------
(* Claims about the order of the calls of one execution *)

\* the positions in the trace of what execution r issued for a tenant
TenantPositions(r) ==
    {i \in DOMAIN trace : trace[i].run = r /\ trace[i].salon # NoID}

\* C18: within one execution everything issued for one tenant precedes every query
\* and send of the next tenant, and within a tenant the birthday lookup and sends
\* precede the anniversary lookup and sends: tenants and categories never interleave.
C18_Sequential ==
    \A r \in DOMAIN runs :
        \A i \in TenantPositions(r), j \in TenantPositions(r) :
            i < j =>
                /\ \A k \in TenantPositions(r) :
                      (j < k /\ trace[i].salon = trace[k].salon)
                          => trace[j].salon = trace[i].salon
                /\ trace[i].salon = trace[j].salon
                      => ~(trace[i].cat = "anniversary" /\ trace[j].cat = "birthday")

\* an execution sent birthday requests, then anniversary requests of one tenant, then
\* requests of another tenant
C18_Witness ==
    \E r \in DOMAIN runs :
        /\ Done(r)
        /\ \E i, j, k \in TenantPositions(r) :
              /\ i < j /\ j < k
              /\ trace[i].kind = "send" /\ trace[j].kind = "send" /\ trace[k].kind = "send"
              /\ trace[i].salon = trace[j].salon /\ trace[k].salon # trace[i].salon
              /\ trace[i].cat = "birthday" /\ trace[j].cat = "anniversary"

-----------------------------------------------------------------------------
(* Claims about the resolver over the year *)

\* the years the calendar of the resolver specification covers
Years ==
    BaseYear..(BaseYear + NumYears - 1)

\* the resolver returns customer c for the event type when called on day t
ReturnedOn(c, eventType, t) ==
    Matches(c, customers[c].salon, Field(eventType), Pairs(t))

\* C19: for every active customer with a stored date of the event type, February 29
\* included, every calendar year has a day on which the resolver returns the customer.
C19_YearlyCoverage ==
    \A c \in CustIDs, eventType \in Categories :
        (customers[c].active /\ customers[c][Field(eventType)] # NULL) =>
            \A y \in Years :
                \E t \in Dates : t.y = y /\ ReturnedOn(c, eventType, t)

-----------------------------------------------------------------------------
(* Claims about the template handler *)

\* the step is a request to UpdateReminderTemplates
TemplatesUpdateStep ==
    /\ Len(runs') = Len(runs) + 1
    /\ runs'[Len(runs')].kind = "update_templates"

\* the message the request of the step carries for a category; empty when omitted
Supplied(cat) ==
    IF cat = "birthday" THEN runs'[Len(runs')].queue[1] ELSE runs'[Len(runs')].queue[2]

\* C21: a request to UpdateReminderTemplates changes the stored template message of
\* a category only when the request carries a message for that category; a category
\* the request omits keeps its message.
C21_OnlySupplied ==
    [][TemplatesUpdateStep =>
          \A s \in SalonIDs, cat \in Categories :
              Supplied(cat) = <<>> => templates'[<<s, cat>>] = templates[<<s, cat>>]]_vars

====
